---------------------------- MODULE Spec2Model ----------------------------
(***************************************************************************)
(* A model of tools/generate_audio.py, the procedural sound-effect         *)
(* generator of Mimi vs Math: the oscillator bank, the shared noise        *)
(* generator, the lowpass filter, the reverb, the mixing helpers, the WAV  *)
(* exporter and the batch loop over the manifest.                          *)
(*                                                                         *)
(* Numbers.  A duration is an integer count of quarter-samples, that is    *)
(* dur = q / (4 * SR) seconds, so that SR * dur has the fractional parts   *)
(* 0, 1/4, 1/2 and 3/4 (0.065 s is q = 11466).  A floating-point sample is *)
(* an exact rational <<n, d>> with d > 0 in lowest terms; the recursive    *)
(* filters (pink noise, lowpass) keep their registers in fixed point, the  *)
(* way floating point rounds every update.  A sample of a sinusoidal       *)
(* oscillator is kept symbolically, as the harmonics summed and the phase  *)
(* in units of 2*pi/SR radians.                                            *)
(***************************************************************************)
EXTENDS Integers, Sequences, FiniteSets, TLC

VARIABLES
    inp,       \* the arguments of the call
    call,      \* the function called, and the generator's position at the call
    ret,       \* its outcome: a returned buffer, or the exception raised
    rng,       \* the module-level generator `rng` (line 25)
    proc,      \* which process (run of the script) is executing
    pinkRef,   \* history: the first noise_pink invocation observed
    brng,      \* batch: each run's generator
    idx,       \* batch: each run's position in the manifest
    files,     \* batch: each run's files written so far
    status,    \* batch: each run's "running", "done" or "aborted"
    packer     \* atlas: the ShelfPacker of create_atlas and what it has packed

vars == <<inp, call, ret, rng, proc, pinkRef, brng, idx, files, status, packer>>

(***************************** bounds **************************************)
MaxDurQ    == 8     \* largest duration tried, in quarter-samples
MaxNegDurQ == 4     \* most negative duration tried, in quarter-samples
MaxLpLen   == 2     \* longest buffer handed to the lowpass filter
MaxSigLen  == 3     \* longest buffer handed to the reverb
MaxMixLen  == 2     \* longest operand of overlay and concat
MaxArrays  == 3     \* most operands of overlay and concat
MaxSaveLen == 3     \* longest buffer handed to save
MaxDraws   == 3     \* variates one process may draw in the noise model
MaxProc    == 2     \* processes (runs of the script) in the noise model
MaxPacks   == 3     \* sprites handed to one ShelfPacker

(***************************** config **************************************)
SR     == 44100
Seed   == 42
DurDen == 4 * SR    \* quarter-samples per second

(***************************** arithmetic **********************************)
Abs(x) == IF x < 0 THEN 0 - x ELSE x
Max2(a, b) == IF a >= b THEN a ELSE b
Min2(a, b) == IF a <= b THEN a ELSE b

\* Python's int(x) on the real number a / b, b > 0: truncation toward zero.
TruncDiv(a, b) == IF a >= 0 THEN a \div b ELSE 0 - ((0 - a) \div b)

\* a * num / den without forming a * num, floored (den * num fits a word).
MulDiv(a, num, den) == (a \div den) * num + ((a % den) * num) \div den

RECURSIVE Gcd(_, _)
Gcd(a, b) == IF b = 0 THEN a ELSE Gcd(b, a % b)

\* The rational n / d in lowest terms with a positive denominator (d # 0).
Rat(n, d) ==
    LET g == Gcd(Abs(n), Abs(d))
        s == IF d < 0 THEN 0 - 1 ELSE 1
    IN  <<(s * n) \div g, (s * d) \div g>>

RZero == <<0, 1>>
ROne  == <<1, 1>>
RInt(k) == <<k, 1>>
RAdd(x, y) ==
    LET g == Gcd(x[2], y[2])
    IN  Rat(x[1] * (y[2] \div g) + y[1] * (x[2] \div g), x[2] * (y[2] \div g))
RNeg(x) == <<0 - x[1], x[2]>>
RSub(x, y) == RAdd(x, RNeg(y))
RMul(x, y) ==
    LET g1 == Gcd(Abs(x[1]), y[2])
        g2 == Gcd(Abs(y[1]), x[2])
    IN  Rat((x[1] \div g1) * (y[1] \div g2), (x[2] \div g2) * (y[2] \div g1))
RDiv(x, y) == RMul(x, Rat(y[2], y[1]))
RAbs(x) == <<Abs(x[1]), x[2]>>
RLess(x, y) == x[1] * y[2] < y[1] * x[2]
RTrunc(x) == TruncDiv(x[1], x[2])

(***************************** outcomes ************************************)
Returned(buf) == [kind |-> "buffer", buf |-> buf, err |-> "none"]
Raised(err)   == [kind |-> "error", buf |-> <<>>, err |-> err]
NoCall        == [fn |-> "none", at |-> 0, proc |-> 0]
NoRet         == [kind |-> "none", buf |-> <<>>, err |-> "none"]
NoPacker      == [made |-> FALSE]

(***************** phase-accurate time + phase accumulator *****************)
\* a / b rounded to the nearest integer, halves upward (b > 0).
RoundDiv(a, b) == (2 * a + b) \div (2 * b)

\* _n as it would be with round() in place of int().
_n_rounding(q) == RoundDiv(q, DurDen \div SR)

\* _n(dur) = int(SR * dur), dur = q / DurDen seconds: SR * q / DurDen with the
\* common factor SR cancelled, so that the recipes' durations stay within the
\* range of the integers.
_n(q) == TruncDiv(q, DurDen \div SR)

\* np.full(n, freq): a negative n raises ValueError.
Full(n, freq) == [i \in 1..n |-> freq]

\* np.cumsum: the running sum, element i holding the sum of elements 1..i.
RECURSIVE CumSum(_)
CumSum(s) ==
    IF Len(s) = 0 THEN <<>>
    ELSE LET front == CumSum(SubSeq(s, 1, Len(s) - 1))
         IN  Append(front, (IF Len(front) = 0 THEN 0 ELSE front[Len(front)]) + s[Len(s)])

\* _phase as it would be were the running sum to exclude the current sample.
_phase_exclusive(freq_array) ==
    [i \in 1..Len(freq_array) |-> CumSum(freq_array)[i] - freq_array[i]]

\* _phase(freq_array) = cumsum(freq_array) / SR * 2 pi: the phase is kept as
\* the cumulative sum, in units of 2 pi / SR radians.
_phase(freq_array) == CumSum(freq_array)

_const_phase(freq, q) == _phase(Full(_n(q), freq))


(***************************** oscillators *********************************)
\* np.sin of a phase of c units: sin(2 pi a / SR) = sin(2 pi b / SR) exactly
\* when a = b or a = SR/2 - b modulo SR, so the value is named by the smaller
\* of the two residues.
NpSin(c) ==
    LET m == c % SR
        r == (SR \div 2 - m) % SR
    IN  [sin |-> Min2(m, r)]

\* Python's range(start, stop, step), step > 0.
PyRange(start, stop, step) == {k \in start..(stop - 1) : (k - start) % step = 0}

\* _bl_square: the sum over k in range(1, harmonics + 1, 2) of sin(k phase)/k,
\* times 4/pi.  A sample is the set of its terms and the scale.
_bl_square(phase, harmonics) ==
    [i \in 1..Len(phase) |->
        [terms |-> {[harm |-> k, sgn |-> 1, val |-> NpSin(k * phase[i])] :
                        k \in PyRange(1, harmonics + 1, 2)},
         scale |-> "4/pi"]]

\* _bl_sawtooth: the sum over k in range(1, harmonics + 1) of
\* (-1)^(k+1) sin(k phase)/k, times 2/pi.
_bl_sawtooth(phase, harmonics) ==
    [i \in 1..Len(phase) |->
        [terms |-> {[harm |-> k, sgn |-> IF k % 2 = 1 THEN 1 ELSE 0 - 1,
                     val |-> NpSin(k * phase[i])] :
                        k \in PyRange(1, harmonics + 1, 1)},
         scale |-> "2/pi"]]

sine(freq, q) ==
    LET ph == _const_phase(freq, q)
    IN  [i \in 1..Len(ph) |-> NpSin(ph[i])]

square(freq, q) == _bl_square(_const_phase(freq, q), 24)

\* A soft square whose sum has eight terms (odd k up to 15).
soft_square_eight_terms(freq, q) == _bl_square(_const_phase(freq, q), 16)

soft_square(freq, q) == _bl_square(_const_phase(freq, q), 8)

sawtooth(freq, q) == _bl_sawtooth(_const_phase(freq, q), 20)

\* triangle: 2 |2 (ph / 2pi % 1) - 1| - 1, exact in the phase's units.
triangle(freq, q) ==
    LET ph == _const_phase(freq, q)
    IN  [i \in 1..Len(ph) |-> Rat(2 * Abs(2 * (ph[i] % SR) - SR) - SR, SR)]

silence(q) == [i \in 1.._n(q) |-> RZero]

(***************************** noise ***************************************)
\* np.random.default_rng(seed): the generator is a seeded stream of variates
\* read at a position that every draw advances.
default_rng(seed) == [seed |-> seed, pos |-> 0]

\* The k-th variate from g's position, uniform in [-1, 1): sixteenths.
Variate(g, k) ==
    LET h == (g.seed * 25173 + (g.pos + k) * 40503 + 13849) % 65536
    IN  (h \div 2048) - 16

\* rng.uniform(-1, 1, n): n variates, and the generator advanced past them.
Uniform(g, n) ==
    [buf |-> [i \in 1..n |-> Variate(g, i - 1)],
     rng |-> [g EXCEPT !.pos = @ + n]]

\* coefficient num/den times register b, floored, without overflow.
Coef(b, num, den) == b - MulDiv(b, den - num, den)

\* The pink filter's loop over w from sample i on: registers and outputs are
\* in units of 1 / (16 * 10^7).
RECURSIVE PinkLoop(_, _, _, _, _, _)
PinkLoop(w, i, b0, b1, b2, b3) ==
    IF i > Len(w) THEN <<>>
    ELSE LET x  == w[i]
             n0 == Coef(b0, 99886, 100000) + x * 555179
             n1 == Coef(b1, 99332, 100000) + x * 750759
             n2 == Coef(b2, 96900, 100000) + x * 1538520
             n3 == Coef(b3, 86650, 100000) + x * 3104856
         IN  <<MulDiv(n0 + n1 + n2 + n3 + x * 5329522, 11, 100)>>
                 \o PinkLoop(w, i + 1, n0, n1, n2, n3)

noise_white(g, q) == Uniform(g, _n(q))

noise_pink(g, q) ==
    LET u == Uniform(g, _n(q))
    IN  [buf |-> PinkLoop(u.buf, 1, 0, 0, 0, 0), rng |-> u.rng]

\* np.full, np.zeros and rng.uniform raise ValueError on a negative length.
Allocated(q, buf) == IF _n(q) < 0 THEN Raised("ValueError") ELSE Returned(buf)


(***************************** filtering ***********************************)
PiApprox == Rat(355, 113)

\* A float kept to thousandths (truncated), as a register update rounds.
RRound(x) == Rat(TruncDiv(x[1] * 1000, x[2]), 1000)

RECURSIVE LowpassLoop(_, _, _, _)
LowpassLoop(sig, i, y, alpha) ==
    IF i > Len(sig) THEN <<>>
    ELSE LET y1 == RRound(RAdd(y, RMul(alpha, RSub(sig[i], y))))
         IN  <<y1>> \o LowpassLoop(sig, i + 1, y1, alpha)

\* lowpass_fast: rc = 1.0 / (2 pi cutoff) and alpha = (1/SR) / (rc + 1/SR) are
\* Python float divisions, which raise ZeroDivisionError on a zero divisor.
lowpass_fast(sig, cutoff_hz) ==
    LET tau == RMul(RInt(2), RMul(PiApprox, RInt(cutoff_hz)))
    IN  IF tau[1] = 0 THEN Raised("ZeroDivisionError")
        ELSE LET rc  == RDiv(ROne, tau)
                 den == RAdd(rc, Rat(1, SR))
             IN  IF den[1] = 0 THEN Raised("ZeroDivisionError")
                 ELSE Returned(LowpassLoop(sig, 1, RZero,
                                           RRound(RDiv(Rat(1, SR), den))))

(***************************** inputs **************************************)
DurQs   == (0 - MaxNegDurQ)..MaxDurQ
Freqs   == {0 - 440, 440, 11025}
Cutoffs == {0 - 1000, 0, 1000, 2800}
Levels  == {Rat(0 - 1, 1), RZero, Rat(1, 2)}
SeqsUpTo(S, n) == UNION {[1..k -> S] : k \in 0..n}

ToneInputs   == {[kind |-> "tone", freq |-> f, dur |-> q] : f \in Freqs, q \in DurQs}
DurInputs    == {[kind |-> "dur", dur |-> q] : q \in DurQs}
FilterInputs ==
    {[kind |-> "filter", sig |-> sig, cutoff_hz |-> c] :
        sig \in SeqsUpTo(Levels, MaxLpLen), c \in Cutoffs}

(***************************** state ***************************************)
NoRef == [seen |-> FALSE]
Runs  == {1, 2}

\* Line 25 as it would be were the generator seeded per process.
ModuleRng_unseeded(p) == default_rng(Seed + p)

\* Line 25, run when process p imports the module: rng = default_rng(42).
ModuleRng(p) == default_rng(Seed)

Idle ==
    /\ call = NoCall
    /\ ret = NoRet
    /\ rng = ModuleRng(1)
    /\ proc = 1
    /\ pinkRef = NoRef

\* No atlas is being packed.
AtlasIdle == packer = NoPacker

BatchIdle ==
    /\ brng = [r \in Runs |-> ModuleRng(r)]
    /\ idx = [r \in Runs |-> 0]
    /\ files = [r \in Runs |-> <<>>]
    /\ status = [r \in Runs |-> "running"]

batchVars == <<brng, idx, files, status>>

Called(fn) == [fn |-> fn, at |-> rng.pos, proc |-> proc]

(***************************** oscillator calls ****************************)
\* One call of an oscillator on the arguments drawn.
OscCall(fn, buf) ==
    /\ inp.kind = "tone"
    /\ call = NoCall
    /\ call' = Called(fn)
    /\ ret' = Allocated(inp.dur, buf)
    /\ UNCHANGED <<inp, rng, proc, pinkRef, batchVars, packer>>

Sine       == OscCall("sine", sine(inp.freq, inp.dur))
Square     == OscCall("square", square(inp.freq, inp.dur))
SoftSquare == OscCall("soft_square", soft_square(inp.freq, inp.dur))
Sawtooth   == OscCall("sawtooth", sawtooth(inp.freq, inp.dur))
Triangle   == OscCall("triangle", triangle(inp.freq, inp.dur))

Silence ==
    /\ inp.kind = "dur"
    /\ call = NoCall
    /\ call' = Called("silence")
    /\ ret' = Allocated(inp.dur, silence(inp.dur))
    /\ UNCHANGED <<inp, rng, proc, pinkRef, batchVars, packer>>

\* A noise call of duration q draws from the shared generator and leaves it
\* advanced; a call that raises draws nothing.
NoiseCall(fn, q, drawn) ==
    /\ rng.pos + Max2(_n(q), 0) <= MaxDraws
    /\ inp' = [kind |-> "dur", dur |-> q]
    /\ call' = Called(fn)
    /\ ret' = Allocated(q, drawn.buf)
    /\ rng' = IF _n(q) < 0 THEN rng ELSE drawn.rng
    /\ UNCHANGED <<proc, batchVars, packer>>

NoiseWhiteOnce ==
    /\ inp.kind = "dur"
    /\ call = NoCall
    /\ NoiseCall("noise_white", inp.dur, noise_white(rng, inp.dur))
    /\ UNCHANGED pinkRef

NoisePinkOnce ==
    /\ inp.kind = "dur"
    /\ call = NoCall
    /\ NoiseCall("noise_pink", inp.dur, noise_pink(rng, inp.dur))
    /\ UNCHANGED pinkRef

LowpassFast ==
    /\ inp.kind = "filter"
    /\ call = NoCall
    /\ call' = Called("lowpass_fast")
    /\ ret' = lowpass_fast(inp.sig, inp.cutoff_hz)
    /\ UNCHANGED <<inp, rng, proc, pinkRef, batchVars, packer>>

InitOsc ==
    /\ inp \in ToneInputs \cup DurInputs \cup FilterInputs
    /\ Idle
    /\ BatchIdle
    /\ AtlasIdle

NextOsc ==
    \/ Sine
    \/ Square
    \/ SoftSquare
    \/ Sawtooth
    \/ Triangle
    \/ Silence
    \/ NoiseWhiteOnce
    \/ NoisePinkOnce
    \/ LowpassFast

SpecOsc == InitOsc /\ [][NextOsc]_vars


(***************************** claims: oscillators *************************)
Producers ==
    {"sine", "square", "soft_square", "sawtooth", "triangle",
     "noise_white", "noise_pink", "silence"}
Oscillators == {"sine", "square", "soft_square", "sawtooth", "triangle"}

\* C1 as stated: for every duration d >= 0, each buffer-producing primitive
\* returns a buffer of exactly round(d * 44100) samples: its length N is an
\* integer nearest to d * 44100, |N - d * 44100| <= 1/2 (a tie may go either
\* way).
C1_LengthIsRounded ==
    (call.fn \in Producers /\ inp.dur >= 0) =>
        /\ ret.kind = "buffer"
        /\ 2 * Abs(Len(ret.buf) * DurDen - SR * inp.dur) <= DurDen

\* C1 amended: for every duration d >= 0, each buffer-producing primitive
\* returns a buffer of exactly int(d * 44100) samples, the product truncated:
\* N <= d * 44100 < N + 1.
C1_LengthIsTruncated ==
    (call.fn \in Producers /\ inp.dur >= 0) =>
        /\ ret.kind = "buffer"
        /\ Len(ret.buf) * DurDen <= SR * inp.dur
        /\ SR * inp.dur < (Len(ret.buf) + 1) * DurDen

\* A primitive has returned a non-empty buffer for a duration whose sample
\* count has a fractional part of one half or more.
C1_Witness ==
    /\ call.fn \in Producers
    /\ ret.kind = "buffer"
    /\ Len(ret.buf) >= 1
    /\ 2 * ((SR * inp.dur) % DurDen) >= DurDen

\* C2 as stated: the sample of sine(f, d) at index i (from 0) is
\* sin(2 pi f i / 44100), so index 0 has phase 0.
C2_SinePhaseFromZero ==
    (call.fn = "sine" /\ ret.kind = "buffer") =>
        \A i \in 1..Len(ret.buf) : ret.buf[i] = NpSin(inp.freq * (i - 1))

\* C2 amended: the sample of sine(f, d) at index i (from 0) is
\* sin(2 pi f (i + 1) / 44100): the phase at index i is i + 1 steps of f / SR.
C2_SinePhaseOneStepAhead ==
    (call.fn = "sine" /\ ret.kind = "buffer") =>
        \A i \in 1..Len(ret.buf) : ret.buf[i] = NpSin(inp.freq * i)

\* sine has returned two samples or more, the first of them not sin(0).
C2_Witness ==
    /\ call.fn = "sine"
    /\ ret.kind = "buffer"
    /\ Len(ret.buf) >= 2
    /\ ret.buf[1] # NpSin(0)

\* C6: a call with an invalid parameter (an oscillator with a negative
\* duration or a negative frequency, lowpass_fast with cutoff_hz <= 0) ends
\* in an error and returns no buffer.
C6_InvalidParameterFails ==
    (\/ (call.fn \in Oscillators /\ (inp.dur < 0 \/ inp.freq < 0))
     \/ (call.fn = "lowpass_fast" /\ inp.cutoff_hz <= 0))
        => ret.kind = "error"

(***************************** the shared generator ************************)
\* The first noise_pink invocation that returned a buffer is remembered.
Observe(q, buf) ==
    IF pinkRef.seen \/ _n(q) < 0 THEN pinkRef
    ELSE [seen |-> TRUE, dur |-> q, at |-> rng.pos, proc |-> proc, out |-> buf]

NoiseWhite ==
    \E q \in DurQs :
        /\ NoiseCall("noise_white", q, noise_white(rng, q))
        /\ UNCHANGED pinkRef

NoisePink ==
    \E q \in DurQs :
        /\ NoiseCall("noise_pink", q, noise_pink(rng, q))
        /\ pinkRef' = Observe(q, noise_pink(rng, q).buf)

\* The script is run again: a new process imports the module.
Restart ==
    /\ proc < MaxProc
    /\ proc' = proc + 1
    /\ rng' = ModuleRng(proc + 1)
    /\ call' = NoCall
    /\ ret' = NoRet
    /\ UNCHANGED <<inp, pinkRef, batchVars, packer>>

InitNoise ==
    /\ inp = [kind |-> "dur", dur |-> 0]
    /\ Idle
    /\ BatchIdle
    /\ AtlasIdle

NextNoise ==
    \/ NoiseWhite
    \/ NoisePink
    \/ Restart

SpecNoise == InitNoise /\ [][NextNoise]_vars

\* C3 as stated: within one process (the generator seeded once), an
\* invocation of noise_pink(d) returns the buffer the first invocation with
\* the same d returned, whatever was drawn in between.
C3_PinkRepeatsWithinProcess ==
    (/\ call.fn = "noise_pink"
     /\ ret.kind = "buffer"
     /\ pinkRef.seen
     /\ pinkRef.proc = call.proc
     /\ pinkRef.dur = inp.dur) => ret.buf = pinkRef.out

\* C3 amended: two invocations of noise_pink(d) with the same d, each made
\* when the same number of variates has been drawn since the generator was
\* seeded with 42, return identical buffers.
C3_PinkRepeatsFromSamePosition ==
    (/\ call.fn = "noise_pink"
     /\ ret.kind = "buffer"
     /\ pinkRef.seen
     /\ pinkRef.at = call.at
     /\ pinkRef.dur = inp.dur) => ret.buf = pinkRef.out

\* noise_pink has returned a non-empty buffer in a second process, from the
\* position and for the duration of the invocation remembered in the first.
C3_Witness ==
    /\ call.fn = "noise_pink"
    /\ ret.kind = "buffer"
    /\ Len(ret.buf) >= 1
    /\ pinkRef.seen
    /\ pinkRef.proc # call.proc
    /\ pinkRef.at = call.at
    /\ pinkRef.dur = inp.dur


(***************************** the batch ***********************************)
\* A duration given in milliseconds, in quarter-samples.
Ms(ms) == (DurDen * ms) \div 1000

\* The manifest, in order: the file, the recipe, and the durations of the
\* recipe's noise_pink calls in the order it makes them.
SOUNDS ==
    << [file |-> "sfx_correct.wav",         fn |-> "sfx_correct",         noise |-> <<>>],
       [file |-> "sfx_wrong.wav",           fn |-> "sfx_wrong",           noise |-> <<Ms(180)>>],
       [file |-> "sfx_click.wav",           fn |-> "sfx_click",           noise |-> <<Ms(65)>>],
       [file |-> "sfx_hit_enemy.wav",       fn |-> "sfx_hit_enemy",       noise |-> <<Ms(60)>>],
       [file |-> "sfx_hit_player.wav",      fn |-> "sfx_hit_player",      noise |-> <<Ms(80)>>],
       [file |-> "sfx_chest_open.wav",      fn |-> "sfx_chest_open",      noise |-> <<>>],
       [file |-> "sfx_battle_start.wav",    fn |-> "sfx_battle_start",    noise |-> <<Ms(70)>>],
       [file |-> "sfx_victory.wav",         fn |-> "sfx_victory",         noise |-> <<>>],
       [file |-> "sfx_boss_intro.wav",      fn |-> "sfx_boss_intro",      noise |-> <<Ms(220)>>],
       [file |-> "sfx_page_turn.wav",       fn |-> "sfx_page_turn",       noise |-> <<Ms(160)>>],
       [file |-> "sfx_level_up.wav",        fn |-> "sfx_level_up",        noise |-> <<>>],
       [file |-> "sfx_npc_talk.wav",        fn |-> "sfx_npc_talk",        noise |-> <<>>],
       [file |-> "sfx_damage_critical.wav", fn |-> "sfx_damage_critical", noise |-> <<Ms(180)>>] >>

\* The noise a recipe is handed by its noise_pink calls from generator g: per
\* call, the generator as the call found it and the number of variates drawn
\* (what the buffer is a function of), and the generator as the last call
\* leaves it.
RECURSIVE Draws(_, _)
Draws(g, durs) ==
    IF Len(durs) = 0 THEN [noise |-> <<>>, rng |-> g]
    ELSE LET n    == _n(Head(durs))
             rest == Draws([g EXCEPT !.pos = @ + n], Tail(durs))
         IN  [noise |-> <<[from |-> g, n |-> n]>> \o rest.noise, rng |-> rest.rng]

\* One layer of a mix: the samples of src added at start..start+len-1.
Layer(src, start, len) == [src |-> src, start |-> start, len |-> len]

\* sfx_chest_open, up to the buffer it hands to hall_reverb: five fm_note
\* buffers concatenated (fm_tone and adsr keep the length _n(dur)), and the
\* sparkle added at pad when it ends inside the sequence.
sfx_chest_open ==
    LET short   == _n(Ms(140))
        notes   == <<short, short, short, short, _n(Ms(280))>>
        sparkle == _n(Ms(300))
        seq     == notes[1] + notes[2] + notes[3] + notes[4] + notes[5]
        pad     == short + short + short + short
        end     == pad + sparkle
        starts  == <<0, notes[1], notes[1] + notes[2], notes[1] + notes[2] + notes[3],
                     notes[1] + notes[2] + notes[3] + notes[4]>>
    IN  [modelled |-> TRUE,
         len    |-> seq,
         layers |-> {Layer("note", starts[k], notes[k]) : k \in 1..5}
                        \cup (IF end <= seq THEN {Layer("sparkle", pad, sparkle)} ELSE {}),
         effect |-> "hall_reverb"]

\* The composition of a recipe's buffer, for the recipes modelled layer by
\* layer.
RecipeMix(fn) ==
    IF fn = "sfx_chest_open" THEN sfx_chest_open ELSE [modelled |-> FALSE]

\* fn(): the samples a recipe returns are its fixed synthesis applied to the
\* noise it drew.
Render(entry, g) ==
    LET d == Draws(g, entry.noise)
    IN  [samples |-> [recipe |-> entry.fn, noise |-> d.noise, mix |-> RecipeMix(entry.fn)],
         rng |-> d.rng]

\* One iteration of the loop of __main__: save(filename, fn()) returns.
Generate(r) ==
    /\ status[r] = "running"
    /\ idx[r] < Len(SOUNDS)
    /\ LET entry == SOUNDS[idx[r] + 1]
           out   == Render(entry, brng[r])
       IN  /\ brng' = [brng EXCEPT ![r] = out.rng]
           /\ files' = [files EXCEPT
                           ![r] = Append(@, [name |-> entry.file, data |-> out.samples])]
           /\ idx' = [idx EXCEPT ![r] = @ + 1]
           /\ status' = [status EXCEPT
                            ![r] = IF idx[r] + 1 = Len(SOUNDS) THEN "done" ELSE "running"]
    /\ UNCHANGED <<inp, call, ret, rng, proc, pinkRef, packer>>

\* One iteration in which save raises (OSError from mkdir, wave.open or
\* writeframes): nothing catches it, so the process ends with a traceback.
GenerateFails(r) ==
    /\ status[r] = "running"
    /\ idx[r] < Len(SOUNDS)
    /\ brng' = [brng EXCEPT ![r] = Render(SOUNDS[idx[r] + 1], brng[r]).rng]
    /\ status' = [status EXCEPT ![r] = "aborted"]
    /\ UNCHANGED <<idx, files>>
    /\ UNCHANGED <<inp, call, ret, rng, proc, pinkRef, packer>>

InitBatch ==
    /\ inp = [kind |-> "none"]
    /\ Idle
    /\ BatchIdle
    /\ AtlasIdle

NextBatch == \E r \in Runs : Generate(r) \/ GenerateFails(r)

SpecBatch == InitBatch /\ [][NextBatch]_vars

Written(r, k) == \E j \in 1..Len(files[r]) : files[r][j].name = SOUNDS[k].file

C5_FailureSkipsOneEntry ==
    \A r \in Runs :
        status[r] # "running" =>
            \A k \in 1..Len(SOUNDS) :
                Written(r, k) \/ (status[r] = "aborted" /\ k = idx[r] + 1)


(***************************** reverb **************************************)
\* A decimal literal of the source: k ten-thousandths.
Dec4(k) == Rat(k, 10000)

\* int(base * SR * (0.9 + 0.2 * room)) for the four comb base delays.
CombDelays(room) ==
    LET scale == RAdd(Dec4(9000), RMul(Dec4(2000), room))
    IN  << RTrunc(RMul(RMul(Dec4(297), RInt(SR)), scale)),
           RTrunc(RMul(RMul(Dec4(371), RInt(SR)), scale)),
           RTrunc(RMul(RMul(Dec4(411), RInt(SR)), scale)),
           RTrunc(RMul(RMul(Dec4(437), RInt(SR)), scale)) >>

ApDelays == << RTrunc(RMul(Dec4(51), RInt(SR))), RTrunc(RMul(Dec4(127), RInt(SR))) >>

\* np.zeros(delay), indexed from 0.
Zeros(delay) == [j \in 0..(delay - 1) |-> RZero]

\* A comb that writes its buffer slot before reading the output from it.
RECURSIVE CombLoop_write_first(_, _, _, _, _, _, _, _)
CombLoop_write_first(sig, i, buf, filt, pos, delay, damping, fb) ==
    IF i > Len(sig) THEN <<>>
    ELSE LET input_s == buf[pos]
             filt1   == RAdd(RMul(input_s, RSub(ROne, damping)), RMul(filt, damping))
             buf1    == [buf EXCEPT ![pos] = RAdd(sig[i], RMul(filt1, fb))]
         IN  <<buf1[pos]>>
                 \o CombLoop_write_first(sig, i + 1, buf1, filt1, (pos + 1) % delay,
                                         delay, damping, fb)

\* One comb: the loop over i with its circular buffer, filter state and
\* position; the result is cb.
RECURSIVE CombLoop(_, _, _, _, _, _, _, _)
CombLoop(sig, i, buf, filt, pos, delay, damping, fb) ==
    IF i > Len(sig) THEN <<>>
    ELSE LET input_s == buf[pos]
             filt1   == RAdd(RMul(input_s, RSub(ROne, damping)), RMul(filt, damping))
             buf1    == [buf EXCEPT ![pos] = RAdd(sig[i], RMul(filt1, fb))]
         IN  <<input_s>>
                 \o CombLoop(sig, i + 1, buf1, filt1, (pos + 1) % delay, delay, damping, fb)

\* One allpass over out: the result is ap.
RECURSIVE AllpassLoop(_, _, _, _, _)
AllpassLoop(out, i, buf, pos, delay) ==
    IF i > Len(out) THEN <<>>
    ELSE LET bv   == buf[pos]
             buf1 == [buf EXCEPT ![pos] = RAdd(out[i], RMul(bv, Dec4(5000)))]
         IN  <<RSub(bv, RMul(out[i], Dec4(5000)))>>
                 \o AllpassLoop(out, i + 1, buf1, (pos + 1) % delay, delay)

SeqAdd(a, b) == [i \in 1..Len(a) |-> RAdd(a[i], b[i])]

\* out after the combs k.. of delays have been added to it.
RECURSIVE CombSum(_, _, _, _, _, _)
CombSum(sig, delays, k, out, damping, fb) ==
    IF k > Len(delays) THEN out
    ELSE CombSum(sig, delays, k + 1,
                 SeqAdd(out, CombLoop(sig, 1, Zeros(delays[k]), RZero, 0,
                                      delays[k], damping, fb)),
                 damping, fb)

RECURSIVE AllpassChain(_, _, _)
AllpassChain(out, delays, k) ==
    IF k > Len(delays) THEN out
    ELSE AllpassChain(AllpassLoop(out, 1, Zeros(delays[k]), 0, delays[k]), delays, k + 1)

\* The exception a loop raises on its first sample, if any: np.zeros(delay)
\* raises ValueError for delay < 0, and buf[pos] raises IndexError on an empty
\* buf (before pos is wrapped) when there is a sample to process.
DelayError(delays, n) ==
    IF \E k \in 1..Len(delays) :
          /\ delays[k] < 0
          /\ \A j \in 1..(k - 1) : delays[j] > 0 \/ n = 0
    THEN "ValueError"
    ELSE IF n > 0 /\ \E k \in 1..Len(delays) : delays[k] = 0
    THEN "IndexError"
    ELSE "none"

\* A sample num + over / (4 + 1e-9): the divisor of line 231 is not
\* representable next to the model's rationals, so the part divided by it is
\* carried separately.
Exact(x)     == [num |-> x, over |-> RZero]
OverCount(x) == [num |-> RZero, over |-> x]

\* u = v as numbers: with a = u.num - v.num and b = v.over - u.over,
\* a (4 + 1e-9) = b, that is a = (b - 4a) 10^9.
NumEq(u, v) ==
    LET a == RSub(u.num, v.num)
        b == RSub(v.over, u.over)
        c == RSub(b, RMul(RInt(4), a))
    IN  IF c = RZero THEN a = RZero
        ELSE RDiv(a, c) = RInt(1000000000)

\* out / count, exactly.
DivideByCount_exact(out, count) ==
    [i \in 1..Len(out) |-> Exact(RDiv(out[i], RInt(count)))]

\* out /= (len(comb_delays) + 1e-9), for the four combs.
DivideByCount(out, count) == [i \in 1..Len(out) |-> OverCount(out[i])]

\* reverb: four combs in parallel, two allpasses in series, the division by
\* the comb count plus 1e-9, and the mix with the dry signal. cb, combs and
\* out are the values of the code's variables of those names (combs: out after
\* the comb loop; out: after the division).
reverb(sig, room, wet, damping) ==
    LET comb_delays == CombDelays(room)
        fb          == RAdd(Dec4(5500), RMul(Dec4(4000), room))
        err         == DelayError(comb_delays, Len(sig))
    IN  IF err # "none" THEN Raised(err)
        ELSE LET combs  == CombSum(sig, comb_delays, 1,
                                   [i \in 1..Len(sig) |-> RZero], damping, fb)
                 ap     == AllpassChain(combs, ApDelays, 1)
                 out    == DivideByCount(ap, Len(comb_delays))
             IN  [kind |-> "buffer", err |-> "none",
                  buf |-> [i \in 1..Len(sig) |->
                              [num  |-> RAdd(RMul(sig[i], RSub(ROne, wet)),
                                             RMul(out[i].num, wet)),
                               over |-> RMul(out[i].over, wet)]],
                  cb |-> [k \in 1..Len(comb_delays) |->
                             CombLoop(sig, 1, Zeros(comb_delays[k]), RZero, 0,
                                      comb_delays[k], damping, fb)],
                  combs |-> combs,
                  out |-> out]

light_reverb(sig, wet) == reverb(sig, Dec4(2500), wet, Dec4(5000))

hall_reverb(sig, wet) == reverb(sig, Dec4(5500), wet, Dec4(3500))

Rooms    == {Rat(0 - 460, 100), Rat(0 - 450, 100), Rat(0 - 449, 100),
             Dec4(3500), ROne}
Wets     == {RZero, Dec4(3000), ROne}
Dampings == {RZero, Dec4(4500)}

ReverbInputs ==
    {[kind |-> "reverb", sig |-> sig, room |-> room, wet |-> wet, damping |-> d] :
        sig \in SeqsUpTo(Levels, MaxSigLen), room \in Rooms, wet \in Wets, d \in Dampings}
PresetInputs ==
    {[kind |-> "preset", sig |-> sig, wet |-> wet] :
        sig \in SeqsUpTo(Levels, MaxSigLen), wet \in Wets}

FxCall(kind, fn, outcome) ==
    /\ inp.kind = kind
    /\ call = NoCall
    /\ call' = Called(fn)
    /\ ret' = outcome
    /\ UNCHANGED <<inp, rng, proc, pinkRef, batchVars, packer>>

Reverb == FxCall("reverb", "reverb", reverb(inp.sig, inp.room, inp.wet, inp.damping))
LightReverb == FxCall("preset", "light_reverb", light_reverb(inp.sig, inp.wet))
HallReverb == FxCall("preset", "hall_reverb", hall_reverb(inp.sig, inp.wet))

InitReverb ==
    /\ inp \in ReverbInputs \cup PresetInputs
    /\ Idle
    /\ BatchIdle
    /\ AtlasIdle

NextReverb ==
    \/ Reverb
    \/ LightReverb
    \/ HallReverb

SpecReverb == InitReverb /\ [][NextReverb]_vars

\* C7: every comb and allpass delay that reverb uses is at least one sample,
\* whatever the room, so no call of reverb ends in an error of its circular
\* buffers.
C7_DelaysAtLeastOne ==
    call.fn = "reverb" =>
        /\ \A k \in 1..4 : CombDelays(inp.room)[k] >= 1
        /\ \A k \in 1..2 : ApDelays[k] >= 1
        /\ ret.kind = "buffer"

\* C8: for every input buffer, room and damping, reverb with wet = 0 returns
\* a buffer equal to the input, sample for sample and of the same length.
C8_DryAtWetZero ==
    (call.fn = "reverb" /\ inp.wet = RZero) =>
        /\ ret.kind = "buffer"
        /\ ret.buf = [i \in 1..Len(inp.sig) |-> Exact(inp.sig[i])]


(***************************** mixing helpers ******************************)
\* max(len(a) for a in arrays), arrays not empty.
MaxLen(arrays) ==
    CHOOSE m \in {Len(arrays[k]) : k \in 1..Len(arrays)} :
        \A k \in 1..Len(arrays) : Len(arrays[k]) <= m

MinLen(arrays) ==
    CHOOSE m \in {Len(arrays[k]) : k \in 1..Len(arrays)} :
        \A k \in 1..Len(arrays) : Len(arrays[k]) >= m

\* The loop of overlay from operand k on: out[:len(a)] += a.
RECURSIVE OverlayLoop(_, _, _)
OverlayLoop(arrays, k, out) ==
    IF k > Len(arrays) THEN out
    ELSE OverlayLoop(arrays, k + 1,
             [i \in 1..Len(out) |->
                 IF i <= Len(arrays[k]) THEN RAdd(out[i], arrays[k][i]) ELSE out[i]])

\* overlay as it would be were the output sized to the shortest operand.
overlay_shortest(arrays) ==
    LET n == MinLen(arrays)
    IN  [buf |-> OverlayLoop([k \in 1..Len(arrays) |-> SubSeq(arrays[k], 1, n)], 1,
                             [i \in 1..n |-> RZero]),
         args |-> arrays]

\* overlay: the buffer returned, and the operands as the call leaves them
\* (it writes to out alone).
overlay(arrays) ==
    LET n == MaxLen(arrays)
    IN  [buf |-> OverlayLoop(arrays, 1, [i \in 1..n |-> RZero]), args |-> arrays]

\* concat: np.concatenate(arrays).
RECURSIVE concat(_)
concat(arrays) ==
    IF Len(arrays) = 0 THEN <<>> ELSE Head(arrays) \o concat(Tail(arrays))

MixLevels == {Rat(1, 2), Rat(0 - 1, 1)}
MixInputs ==
    {[kind |-> "mix", arrays |-> arrays] :
        arrays \in UNION {[1..k -> SeqsUpTo(MixLevels, MaxMixLen)] : k \in 1..MaxArrays}}

Overlay ==
    /\ inp.kind = "mix"
    /\ call = NoCall
    /\ call' = Called("overlay")
    /\ ret' = [kind |-> "buffer", buf |-> overlay(inp.arrays).buf, err |-> "none",
               args |-> overlay(inp.arrays).args]
    /\ UNCHANGED <<inp, rng, proc, pinkRef, batchVars, packer>>

Concat ==
    /\ inp.kind = "mix"
    /\ call = NoCall
    /\ call' = Called("concat")
    /\ ret' = [kind |-> "buffer", buf |-> concat(inp.arrays), err |-> "none",
               args |-> inp.arrays]
    /\ UNCHANGED <<inp, rng, proc, pinkRef, batchVars, packer>>

InitMix ==
    /\ inp \in MixInputs
    /\ Idle
    /\ BatchIdle
    /\ AtlasIdle

NextMix ==
    \/ Overlay
    \/ Concat

SpecMix == InitMix /\ [][NextMix]_vars

\* The sum of operand[i] over the operands k.. that are longer than i - 1.
RECURSIVE SumAt(_, _, _)
SumAt(arrays, k, i) ==
    IF k > Len(arrays) THEN RZero
    ELSE RAdd(IF Len(arrays[k]) >= i THEN arrays[k][i] ELSE RZero,
              SumAt(arrays, k + 1, i))

\* C9: overlay of one or more buffers returns a buffer as long as the longest
\* operand whose sample i is the sum of the operands that have a sample i,
\* and leaves every operand as it was.
C9_OverlaySumsZeroPadded ==
    call.fn = "overlay" =>
        /\ ret.kind = "buffer"
        /\ \A k \in 1..Len(inp.arrays) : Len(inp.arrays[k]) <= Len(ret.buf)
        /\ \E k \in 1..Len(inp.arrays) : Len(inp.arrays[k]) = Len(ret.buf)
        /\ \A i \in 1..Len(ret.buf) : ret.buf[i] = SumAt(inp.arrays, 1, i)
        /\ ret.args = inp.arrays

\* overlay has returned for three operands of three different lengths, the
\* shortest of them empty, the longest last.
C9_Witness ==
    /\ call.fn = "overlay"
    /\ Len(inp.arrays) = 3
    /\ Len(inp.arrays[1]) = 1
    /\ Len(inp.arrays[2]) = 0
    /\ Len(inp.arrays[3]) = 2
    /\ Len(ret.buf) = 2
    /\ ret.buf[1] = RAdd(inp.arrays[1][1], inp.arrays[3][1])
    /\ ret.buf[2] = inp.arrays[3][2]

(***************************** WAV export **********************************)
VOLUME == Rat(82, 100)
Int16Max == 32767

\* np.max(np.abs(samples)) of a non-empty buffer.
Peak(samples) ==
    CHOOSE p \in {RAbs(samples[i]) : i \in 1..Len(samples)} :
        \A i \in 1..Len(samples) : ~RLess(p, RAbs(samples[i]))

\* np.clip(x, -32767, 32767).astype(np.int16): clipped, then truncated.
Quantize(x) ==
    LET y == RMul(x, RInt(Int16Max))
    IN  IF RLess(RInt(Int16Max), y) THEN Int16Max
        ELSE IF RLess(y, RInt(0 - Int16Max)) THEN 0 - Int16Max
        ELSE RTrunc(y)

\* save without the peak normalisation of lines 315-316.
save_unnormalized(samples) ==
    IF Len(samples) = 0 THEN [kind |-> "error", pcm |-> <<>>, divided |-> FALSE,
                              err |-> "ValueError"]
    ELSE [kind |-> "written",
          pcm |-> [i \in 1..Len(samples) |-> Quantize(samples[i])],
          divided |-> FALSE, err |-> "none"]

\* save, up to the frames handed to the wave writer: np.max raises ValueError
\* on an empty buffer; divided records whether samples / peak was evaluated.
save(samples) ==
    IF Len(samples) = 0 THEN [kind |-> "error", pcm |-> <<>>, divided |-> FALSE,
                              err |-> "ValueError"]
    ELSE LET peak   == Peak(samples)
             scaled == IF RLess(RZero, peak)
                       THEN [i \in 1..Len(samples) |->
                                RMul(RDiv(samples[i], peak), VOLUME)]
                       ELSE samples
         IN  [kind |-> "written",
              pcm |-> [i \in 1..Len(samples) |-> Quantize(scaled[i])],
              divided |-> RLess(RZero, peak), err |-> "none"]

SaveLevels == {RZero, Rat(1, 2), Rat(0 - 1, 1), Rat(3, 1)}
SaveInputs ==
    {[kind |-> "save", samples |-> x] : x \in SeqsUpTo(SaveLevels, MaxSaveLen)}

Save ==
    /\ inp.kind = "save"
    /\ call = NoCall
    /\ call' = Called("save")
    /\ ret' = save(inp.samples)
    /\ UNCHANGED <<inp, rng, proc, pinkRef, batchVars, packer>>

InitSave ==
    /\ inp \in SaveInputs
    /\ Idle
    /\ BatchIdle
    /\ AtlasIdle

NextSave == Save

SpecSave == InitSave /\ [][NextSave]_vars

\* C10: save on a buffer whose samples are all zero divides nothing by the
\* peak and writes PCM samples that are all zero.
C10_SilenceIsWrittenAsZeros ==
    (call.fn = "save" /\ \A i \in 1..Len(inp.samples) : inp.samples[i] = RZero) =>
        /\ ret.kind = "written"
        /\ ~ret.divided
        /\ Len(ret.pcm) = Len(inp.samples)
        /\ \A i \in 1..Len(ret.pcm) : ret.pcm[i] = 0

\* The largest absolute value among the PCM frames.
PcmPeak(pcm) ==
    CHOOSE m \in {Abs(pcm[i]) : i \in 1..Len(pcm)} :
        \A i \in 1..Len(pcm) : Abs(pcm[i]) <= m

SaveHasPeak ==
    /\ call.fn = "save"
    /\ \E i \in 1..Len(inp.samples) : inp.samples[i] # RZero

\* C11: for a buffer whose peak is positive, the largest absolute PCM value
\* written by save is within one quantization step of 0.82 * 32767, and every
\* PCM value lies in [-32767, 32767], whatever the scale of the input.
C11_PeakIsNormalized ==
    SaveHasPeak =>
        /\ ret.kind = "written"
        /\ RLess(RAbs(RSub(RInt(PcmPeak(ret.pcm)), RMul(VOLUME, RInt(Int16Max)))),
                 ROne)
        /\ \A i \in 1..Len(ret.pcm) :
              ret.pcm[i] >= 0 - Int16Max /\ ret.pcm[i] <= Int16Max

\* save has written a buffer whose peak, 3.0, is above full scale, next to a
\* sample of the opposite sign below full scale.
C11_Witness ==
    /\ SaveHasPeak
    /\ Len(inp.samples) = 2
    /\ inp.samples[1] = Rat(3, 1)
    /\ inp.samples[2] = Rat(0 - 1, 1)
    /\ ret.pcm = <<26868, 0 - 8956>>

(***************************** envelope ************************************)
\* An envelope value coef * base^(exp/10), kept symbolic because the
\* exponents 0.5, 1.4 and 1.6 give irrational powers. 0 and 1 are fixed
\* points of every power; a plain number has exp = 10 and base = 1.
Plain(x) == [coef |-> x, base |-> ROne, exp |-> 10]
NaN      == [coef |-> RZero, base |-> RZero, exp |-> 0]
Unset    == [coef |-> RZero, base |-> RZero, exp |-> 0 - 1]

\* x ** (e/10) of numpy: nan for a negative base.
Pow(x, e) ==
    IF x = RZero \/ x = ROne THEN Plain(x)
    ELSE IF RLess(x, RZero) THEN NaN
    ELSE [coef |-> ROne, base |-> x, exp |-> e]

\* s * v for a sample s and an envelope value v.
Times(s, v) ==
    IF v = NaN \/ v = Unset THEN v
    ELSE IF s = RZero THEN Plain(RZero)
    ELSE IF v.exp = 10 THEN Plain(RMul(s, v.coef))
    ELSE [v EXCEPT !.coef = RMul(s, v.coef)]

\* np.linspace(start, stop, num, endpoint=False): num steps of (stop-start)/num.
linspace_open(start, stop, num) ==
    [k \in 1..num |-> RAdd(start, RMul(RInt(k - 1), RDiv(RSub(stop, start), RInt(num))))]

\* np.linspace(start, stop, num): num points from start to stop inclusive; a
\* single point is start.
linspace(start, stop, num) ==
    [k \in 1..num |->
        IF num = 1 THEN start
        ELSE RAdd(start, RMul(RInt(k - 1), RDiv(RSub(stop, start), RInt(num - 1))))]

\* env[lo:hi] = vals on an array that records how often each cell was written;
\* stage names the assignment.
SliceAssign(env, lo, hi, vals, stage) ==
    [i \in 1..Len(env) |->
        IF lo < i /\ i <= hi
        THEN [val |-> vals[i - lo], writes |-> env[i].writes + 1, stage |-> stage]
        ELSE env[i]]

\* The stage lengths of adsr without their clamps.
adsr_d_unclamped(decay, n, a) == _n(decay)
adsr_rem_unclamped(r, n, s_end) == r

\* a, d, r, s_end and rem of adsr.
adsr_a(attack, n)       == Min2(_n(attack), n)
adsr_d(decay, n, a)     == Min2(_n(decay), n - a)
adsr_r(release, n)      == Min2(_n(release), n)
adsr_s_end(n, r, s_start) == Max2(n - r, s_start)
adsr_rem(r, n, s_end)   == Min2(r, n - s_end)

\* adsr: the envelope is np.empty(n), then written by up to four slice
\* assignments. A slice assignment whose slice, cut at n, is shorter than the
\* values assigned raises ValueError, as does a linspace of negative length.
adsr(sig, attack, decay, sustain, release) ==
    LET n       == Len(sig)
        a       == adsr_a(attack, n)
        d       == adsr_d(decay, n, a)
        r       == adsr_r(release, n)
        s_start == a + d
        s_end   == adsr_s_end(n, r, s_start)
        rem     == IF r # 0 THEN adsr_rem(r, n, s_end) ELSE 0
        env0    == [i \in 1..n |-> [val |-> Unset, writes |-> 0, stage |-> "none"]]
        env1    == IF a # 0
                   THEN SliceAssign(env0, 0, a,
                            [k \in 1..a |-> Pow(linspace(RZero, ROne, a)[k], 5)],
                            "attack")
                   ELSE env0
        env2    == IF d # 0
                   THEN SliceAssign(env1, a, a + d,
                            [k \in 1..d |-> Pow(linspace(ROne, sustain, d)[k], 14)],
                            "decay")
                   ELSE env1
        env3    == SliceAssign(env2, s_start, s_end,
                       [k \in 1..(s_end - s_start) |-> Plain(sustain)], "sustain")
        env4    == IF r # 0
                   THEN SliceAssign(env3, s_end, s_end + rem,
                            [k \in 1..rem |-> Pow(linspace(sustain, RZero, rem)[k], 16)],
                            "release")
                   ELSE env3
        stages  == [a |-> a, d |-> d, r |-> r, s_start |-> s_start,
                    s_end |-> s_end, rem |-> rem]
    IN  IF a < 0 \/ d < 0 \/ rem < 0 \/ a + d > n \/ s_end + rem > n
        THEN [kind |-> "error", err |-> "ValueError", buf |-> <<>>, env |-> <<>>,
              stages |-> stages]
        ELSE [kind |-> "buffer", err |-> "none",
              buf |-> [i \in 1..n |-> Times(sig[i], env4[i].val)],
              env |-> env4, stages |-> stages]

MaxEnvLen == 7
MaxStageH == 6

\* Stage times in half samples (quarter-sample units, as durations are).
StageQs  == {2 * h : h \in 0..MaxStageH}
Sustains == {RZero, Rat(7, 10), ROne}
AdsrLevels == {ROne, Rat(0 - 1, 2)}
AdsrInputs ==
    {[kind |-> "adsr", sig |-> Full(n, level), attack |-> at, decay |-> de,
      sustain |-> su, release |-> re] :
        n \in 0..MaxEnvLen, level \in AdsrLevels, at \in StageQs, de \in StageQs,
        su \in Sustains, re \in StageQs}

Adsr ==
    /\ inp.kind = "adsr"
    /\ call = NoCall
    /\ call' = Called("adsr")
    /\ ret' = adsr(inp.sig, inp.attack, inp.decay, inp.sustain, inp.release)
    /\ UNCHANGED <<inp, rng, proc, pinkRef, batchVars, packer>>

InitAdsr ==
    /\ inp \in AdsrInputs
    /\ Idle
    /\ BatchIdle
    /\ AtlasIdle

NextAdsr == Adsr

SpecAdsr == InitAdsr /\ [][NextAdsr]_vars

\* The index range [lo, hi) written by one stage of the envelope.
StageRange(st, stage) ==
    CASE stage = "attack"  -> [lo |-> 0, hi |-> st.a]
      [] stage = "decay"   -> [lo |-> st.a, hi |-> st.a + st.d]
      [] stage = "sustain" -> [lo |-> st.s_start, hi |-> st.s_end]
      [] stage = "release" -> [lo |-> st.s_end, hi |-> st.s_end + st.rem]

Stages == {"attack", "decay", "sustain", "release"}

\* C12: for every buffer length and non-negative attack, decay and release,
\* the four index ranges adsr writes have non-negative length, lie inside
\* [0, N), are pairwise disjoint and cover every index exactly once: the
\* output has length N and every envelope cell is assigned once.
C12_StagesPartitionBuffer ==
    call.fn = "adsr" =>
        /\ ret.kind = "buffer"
        /\ Len(ret.buf) = Len(inp.sig)
        /\ \A g \in Stages :
              LET rg == StageRange(ret.stages, g)
              IN  0 <= rg.lo /\ rg.lo <= rg.hi /\ rg.hi <= Len(inp.sig)
        /\ \A g, h \in Stages :
              g # h =>
                 LET x == StageRange(ret.stages, g)
                     y == StageRange(ret.stages, h)
                 IN  x.hi <= y.lo \/ y.hi <= x.lo
        /\ \A i \in 1..Len(inp.sig) :
              /\ ret.env[i].writes = 1
              /\ ret.env[i].val # Unset
              /\ \E g \in Stages :
                    LET rg == StageRange(ret.stages, g)
                    IN  rg.lo < i /\ i <= rg.hi /\ ret.env[i].stage = g

\* adsr has returned with an attack, a decay and a release that was cut short
\* by the end of the buffer, the sustain plateau having vanished.
C12_Witness ==
    /\ call.fn = "adsr"
    /\ ret.kind = "buffer"
    /\ ret.stages.a > 0 /\ ret.stages.d > 0
    /\ ret.stages.s_end = ret.stages.s_start
    /\ ret.stages.rem > 0 /\ ret.stages.rem < ret.stages.r
    /\ _n(inp.attack) + _n(inp.decay) + _n(inp.release) > Len(inp.sig)

\* adsr was called with attack and decay sample counts that together reach
\* the buffer length.
AttackDecayFillBuffer ==
    /\ call.fn = "adsr"
    /\ _n(inp.attack) + _n(inp.decay) >= Len(inp.sig)

\* C13 as stated: when int(attack*SR) + int(decay*SR) >= N, the decay, sustain
\* and release regions all have length zero and the envelope is the attack
\* ramp alone.
C13_OverflowIsAttackOnly ==
    AttackDecayFillBuffer =>
        /\ ret.kind = "buffer"
        /\ ret.stages.d = 0
        /\ ret.stages.s_end = ret.stages.s_start
        /\ ret.stages.rem = 0
        /\ \A i \in 1..Len(ret.env) : ret.env[i].stage = "attack"

\* C13: when int(attack*SR) + int(decay*SR) >= N, the sustain and release
\* regions have length zero and the decay region takes the N - a samples the
\* attack leaves, so the envelope is the attack ramp followed by the decay
\* ramp; it is the attack ramp alone only when int(attack*SR) >= N.
C13_OverflowIsAttackThenDecay ==
    AttackDecayFillBuffer =>
        /\ ret.kind = "buffer"
        /\ ret.stages.a = Min2(_n(inp.attack), Len(inp.sig))
        /\ ret.stages.d = Len(inp.sig) - ret.stages.a
        /\ ret.stages.s_end = ret.stages.s_start
        /\ ret.stages.rem = 0
        /\ \A i \in 1..Len(ret.env) :
              ret.env[i].stage = (IF i <= ret.stages.a THEN "attack" ELSE "decay")
        /\ (_n(inp.attack) >= Len(inp.sig)) <=> (ret.stages.d = 0)

\* adsr has returned for an attack shorter than the buffer and a decay that
\* runs past its end, a release having been asked for.
C13_Witness ==
    /\ AttackDecayFillBuffer
    /\ ret.kind = "buffer"
    /\ ret.stages.a > 0
    /\ ret.stages.d > 0
    /\ ret.stages.d < _n(inp.decay)
    /\ ret.stages.r > 0

\* adsr was called on a constant 1.0 buffer that holds the whole attack,
\* decay and release, attack and release being at least two samples long.
UnitBufferHoldsStages ==
    /\ call.fn = "adsr"
    /\ \A i \in 1..Len(inp.sig) : inp.sig[i] = ROne
    /\ _n(inp.attack) >= 2
    /\ _n(inp.release) >= 2
    /\ _n(inp.attack) + _n(inp.decay) + _n(inp.release) <= Len(inp.sig)

\* C14: on a constant 1.0 buffer with a >= 2, r >= 2 and a + d + r <= N, the
\* output is 0 at index 0, 1 at index a - 1, sustain at every index of
\* [a + d, N - r), and 0 at the last index.
C14_UnitBufferLandmarks ==
    UnitBufferHoldsStages =>
        LET n == Len(inp.sig)
            a == _n(inp.attack)
            d == _n(inp.decay)
            r == _n(inp.release)
        IN  /\ ret.kind = "buffer"
            /\ Len(ret.buf) = n
            /\ ret.buf[1] = Plain(RZero)
            /\ ret.buf[a] = Plain(ROne)
            /\ \A i \in (a + d + 1)..(n - r) : ret.buf[i] = Plain(inp.sustain)
            /\ ret.buf[n] = Plain(RZero)

\* adsr has returned for a unit buffer with a decay and a plateau of two
\* samples at sustain 0.7.
C14_Witness ==
    /\ UnitBufferHoldsStages
    /\ inp.sustain = Rat(7, 10)
    /\ ret.stages.d > 0
    /\ ret.stages.s_end - ret.stages.s_start >= 2
    /\ ret.buf[ret.stages.s_start + 1] = Plain(Rat(7, 10))

\* C15: for a sustain level strictly between 0 and 1 the envelope is continuous
\* at the stage boundaries: a decay segment of two or more samples starts at 1
\* and ends at sustain, and a release segment of two or more samples starts at
\* sustain and ends at 0.
C15_EnvelopeIsContinuous ==
    (/\ call.fn = "adsr"
     /\ ret.kind = "buffer"
     /\ RLess(RZero, inp.sustain) /\ RLess(inp.sustain, ROne)) =>
        LET st == ret.stages
        IN  /\ st.d >= 2 =>
                 /\ ret.env[st.a + 1].val = Plain(ROne)
                 /\ ret.env[st.a + st.d].val = Plain(inp.sustain)
            /\ st.rem >= 2 =>
                 /\ ret.env[st.s_end + 1].val = Plain(inp.sustain)
                 /\ ret.env[st.s_end + st.rem].val = Plain(RZero)

(***************************** harmonic content ****************************)
\* The harmonic numbers k of the terms summed into one sample.
Harmonics(sample) == {t.harm : t \in sample.terms}

OddUpTo(h) == {k \in 1..h : k % 2 = 1}

\* C16 as stated: square sums sin(k phase)/k over exactly the odd k of 1..24,
\* and the sum of soft_square contains 8 harmonic terms.
C16_SoftSquareHasEightTerms ==
    /\ (call.fn = "square" /\ ret.kind = "buffer") =>
          \A i \in 1..Len(ret.buf) : Harmonics(ret.buf[i]) = OddUpTo(24)
    /\ (call.fn = "soft_square" /\ ret.kind = "buffer") =>
          \A i \in 1..Len(ret.buf) : Cardinality(ret.buf[i].terms) = 8

\* C16: square sums sin(k phase)/k over exactly the odd k of 1..24, twelve
\* terms; soft_square passes 8 as the highest harmonic number, so its sum has
\* the four terms k = 1, 3, 5, 7.
C16_SoftSquareHasFourTerms ==
    /\ (call.fn = "square" /\ ret.kind = "buffer") =>
          \A i \in 1..Len(ret.buf) :
              /\ Harmonics(ret.buf[i]) = OddUpTo(24)
              /\ Cardinality(ret.buf[i].terms) = 12
              /\ \A t \in ret.buf[i].terms :
                    t.sgn = 1 /\ t.val = NpSin(t.harm * _const_phase(inp.freq, inp.dur)[i])
    /\ (call.fn = "soft_square" /\ ret.kind = "buffer") =>
          \A i \in 1..Len(ret.buf) :
              /\ Harmonics(ret.buf[i]) = {1, 3, 5, 7}
              /\ Cardinality(ret.buf[i].terms) = 4

\* soft_square has returned a buffer of two samples, each a sum of four terms.
C16_Witness ==
    /\ call.fn = "soft_square"
    /\ ret.kind = "buffer"
    /\ Len(ret.buf) = 2
    /\ Harmonics(ret.buf[2]) = {1, 3, 5, 7}

(***************************** reverb structure ****************************)
ReverbFns == {"reverb", "light_reverb", "hall_reverb"}

\* A call of reverb, directly or through a preset, has returned a buffer.
ReverbReturned == call.fn \in ReverbFns /\ ret.kind = "buffer"

\* The room and damping the call ran with (lines 236 and 240 for the presets).
CallRoom ==
    IF call.fn = "light_reverb" THEN Dec4(2500)
    ELSE IF call.fn = "hall_reverb" THEN Dec4(5500) ELSE inp.room
CallDamping ==
    IF call.fn = "light_reverb" THEN Dec4(5000)
    ELSE IF call.fn = "hall_reverb" THEN Dec4(3500) ELSE inp.damping
CallFb == RAdd(Dec4(5500), RMul(Dec4(4000), CallRoom))

\* The two allpasses applied to the comb sum divided by exactly 4.
QuarterSumWet ==
    AllpassChain([i \in 1..Len(ret.combs) |-> RDiv(ret.combs[i], RInt(4))], ApDelays, 1)

\* C17 as stated: the wet signal the code mixes with the dry input is the two
\* cascaded allpasses applied to (sum of the four comb outputs) / 4.
C17_WetIsAllpassOfQuarterSum ==
    ReverbReturned =>
        \A i \in 1..Len(ret.out) : NumEq(ret.out[i], Exact(QuarterSumWet[i]))

\* C17: the wet signal the code mixes with the dry input is the two cascaded
\* allpasses applied to the sum of the four comb outputs, divided after the
\* allpass chain by 4 + 1e-9; it is 4 / (4 + 1e-9) times the allpasses applied
\* to (comb sum) / 4, and equals that signal only where it is zero.
C17_WetIsAllpassOfSumOverCount ==
    ReverbReturned =>
        /\ Len(ret.out) = Len(inp.sig)
        /\ \A i \in 1..Len(ret.out) :
              /\ ret.out[i] = OverCount(AllpassChain(ret.combs, ApDelays, 1)[i])
              /\ NumEq(ret.out[i], OverCount(RMul(RInt(4), QuarterSumWet[i])))
              /\ NumEq(ret.out[i], Exact(QuarterSumWet[i])) <=> (QuarterSumWet[i] = RZero)
              /\ NumEq(ret.buf[i],
                       [num  |-> RMul(inp.sig[i], RSub(ROne, inp.wet)),
                        over |-> RMul(ret.out[i].over, inp.wet)])

\* reverb has returned a buffer whose third sample carries wet signal from the
\* first echo of the shortest comb.
C17_Witness ==
    /\ ReverbReturned
    /\ Len(ret.out) = 3
    /\ ret.combs[3] # RZero
    /\ ret.out[3].over # RZero
    /\ inp.wet # RZero

\* The state filt of a comb after sample j, from the comb's outputs.
RECURSIVE CombFilt(_, _, _)
CombFilt(cb, j, damping) ==
    IF j = 0 THEN RZero
    ELSE RAdd(RMul(cb[j], RSub(ROne, damping)), RMul(CombFilt(cb, j - 1, damping), damping))

\* The smallest of the comb delays.
ShortestDelay(delays) ==
    CHOOSE m \in {delays[k] : k \in 1..Len(delays)} :
        \A k \in 1..Len(delays) : m <= delays[k]

\* C18: a comb reads its buffer slot before writing it: its output at sample
\* i is 0 below its delay and otherwise the value sig + filt * fb written
\* delay samples earlier; so below the shortest comb delay the output of
\* reverb is exactly dry * (1 - wet).
C18_NoWetBeforeFirstEcho ==
    ReverbReturned =>
        LET delays == CombDelays(CallRoom)
        IN  /\ \A k \in 1..Len(delays) : \A i \in 1..Len(inp.sig) :
                  ret.cb[k][i] =
                      IF i <= delays[k] THEN RZero
                      ELSE RAdd(inp.sig[i - delays[k]],
                                RMul(CombFilt(ret.cb[k], i - delays[k], CallDamping),
                                     CallFb))
            /\ \A i \in 1..Len(inp.sig) :
                  i <= ShortestDelay(delays) =>
                      ret.buf[i] = Exact(RMul(inp.sig[i], RSub(ROne, inp.wet)))

\* reverb has returned for a first sample that is not silent: the output is
\* dry up to the shortest delay of two samples, and the echo follows it.
C18_Witness ==
    /\ ReverbReturned
    /\ ShortestDelay(CombDelays(CallRoom)) = 2
    /\ Len(inp.sig) = 3
    /\ inp.sig[1] # RZero
    /\ inp.wet = Dec4(3000)
    /\ ret.cb[1][3] = inp.sig[1]
    /\ ret.buf[2] = Exact(RMul(inp.sig[2], Dec4(7000)))
    /\ ret.buf[3].over # RZero

(***************************** recipes *************************************)
\* C19: the buffer sfx_chest_open hands to hall_reverb is the five notes with
\* the sparkle layer, _n(0.30) samples long, mixed in at offset 4 * _n(0.14).
C19_SparkleIsMixedIn ==
    \A r \in Runs : \A j \in 1..Len(files[r]) :
        files[r][j].name = "sfx_chest_open.wav" =>
            Layer("sparkle", 4 * _n(Ms(140)), _n(Ms(300))) \in files[r][j].data.mix.layers

(***************************** atlas packing *******************************)
MAX_ATLAS_SIZE == 2048
PADDING        == 2

\* Python's None, and the empty list.
None == <<>>

\* ShelfPacker.__init__, with the list of sprites create_atlas has packed
\* (packed), the number of pack calls made, the size last asked for and the
\* position returned for it, and the dimensions once get_dimensions has been
\* asked for them.
ShelfPacker(max_width, max_height) ==
    [made |-> TRUE, max_width |-> max_width, max_height |-> max_height,
     shelves |-> <<>>, current_shelf |-> None, used_height |-> 0,
     packed |-> <<>>, calls |-> 0, asked |-> None, last |-> None, dims |-> None]

\* pack without the test of the height against the shelf.
pack_any_height(self, width, height) ==
    LET w == width + PADDING * 2
        h == height + PADDING * 2
        shelf_x == self.current_shelf[1]
        shelf_y == self.current_shelf[2]
        shelf_w == self.current_shelf[3]
        shelf_h == self.current_shelf[4]
        next_x  == shelf_x + shelf_w
        new_shelf_y == self.used_height
    IN  IF self.current_shelf # None /\ next_x + w <= self.max_width
        THEN [self |-> [self EXCEPT
                           !.current_shelf = <<next_x, shelf_y, shelf_w + w, shelf_h>>],
              pos |-> <<next_x + PADDING, shelf_y + PADDING>>]
        ELSE IF new_shelf_y + h > self.max_height
        THEN [self |-> self, pos |-> None]
        ELSE [self |-> [self EXCEPT
                           !.current_shelf = <<0, new_shelf_y, w, h>>,
                           !.shelves = Append(@, <<0, new_shelf_y, w, h>>),
                           !.used_height = new_shelf_y + h],
              pos |-> <<PADDING, new_shelf_y + PADDING>>]

\* ShelfPacker.pack: the packer after the call and the position returned.
\* A shelf is the tuple (x, y, w, h); the tuple appended to shelves is the one
\* made when the shelf is created, and is not the one current_shelf is later
\* rebound to.
pack(self, width, height) ==
    LET w == width + PADDING * 2
        h == height + PADDING * 2
        shelf_x == self.current_shelf[1]
        shelf_y == self.current_shelf[2]
        shelf_w == self.current_shelf[3]
        shelf_h == self.current_shelf[4]
        next_x  == shelf_x + shelf_w
        new_shelf_y == self.used_height
    IN  IF self.current_shelf # None /\ next_x + w <= self.max_width /\ h <= shelf_h
        THEN [self |-> [self EXCEPT
                           !.current_shelf = <<next_x, shelf_y, shelf_w + w, shelf_h>>],
              pos |-> <<next_x + PADDING, shelf_y + PADDING>>]
        ELSE IF new_shelf_y + h > self.max_height
        THEN [self |-> self, pos |-> None]
        ELSE [self |-> [self EXCEPT
                           !.current_shelf = <<0, new_shelf_y, w, h>>,
                           !.shelves = Append(@, <<0, new_shelf_y, w, h>>),
                           !.used_height = new_shelf_y + h],
              pos |-> <<PADDING, new_shelf_y + PADDING>>]

\* width = 1; while width < bound: width *= 2.
RECURSIVE PowerOfTwoFrom(_, _)
PowerOfTwoFrom(width, bound) ==
    IF width < bound THEN PowerOfTwoFrom(width * 2, bound) ELSE width

\* max(s[0] + s[2] for s in self.shelves), shelves not empty.
ShelvesWidth(shelves) ==
    CHOOSE m \in {shelves[k][1] + shelves[k][3] : k \in 1..Len(shelves)} :
        \A k \in 1..Len(shelves) : shelves[k][1] + shelves[k][3] <= m

\* ShelfPacker.get_dimensions.
get_dimensions(self) ==
    IF self.shelves = <<>> THEN <<0, 0>>
    ELSE <<Min2(PowerOfTwoFrom(1, ShelvesWidth(self.shelves)), MAX_ATLAS_SIZE),
           Min2(PowerOfTwoFrom(1, self.used_height), MAX_ATLAS_SIZE)>>

\* Sprite widths and heights, the largest too big for the atlas once padded.
SpriteSizes == {30, 60, 1000, 2046}

\* One iteration of the packing loop of create_atlas: the sprite is packed, and
\* recorded with its position unless pack returned None.
Pack ==
    /\ packer.made
    /\ packer.dims = None
    /\ packer.calls < MaxPacks
    /\ \E width \in SpriteSizes, height \in SpriteSizes :
          LET out == pack(packer, width, height)
          IN  packer' = [out.self EXCEPT
                            !.calls = @ + 1,
                            !.asked = <<width, height>>,
                            !.last = out.pos,
                            !.packed = IF out.pos = None THEN @
                                       ELSE Append(@, [x |-> out.pos[1], y |-> out.pos[2],
                                                       width |-> width, height |-> height])]
    /\ UNCHANGED <<inp, call, ret, rng, proc, pinkRef, batchVars>>

\* create_atlas asks for the dimensions after the loop and creates the image.
GetDimensions ==
    /\ packer.made
    /\ packer.dims = None
    /\ packer.calls > 0
    /\ packer' = [packer EXCEPT !.dims = get_dimensions(packer)]
    /\ UNCHANGED <<inp, call, ret, rng, proc, pinkRef, batchVars>>

InitAtlas ==
    /\ inp = [kind |-> "none"]
    /\ Idle
    /\ BatchIdle
    /\ packer = ShelfPacker(MAX_ATLAS_SIZE, MAX_ATLAS_SIZE)

NextAtlas ==
    \/ Pack
    \/ GetDimensions

SpecAtlas == InitAtlas /\ [][NextAtlas]_vars

\* C20: the (width, height) that get_dimensions returns contains every
\* rectangle placed so far: x + w <= width and y + h <= height for each
\* sprite packed, so the atlas image holds every packed sprite in full.
C20_DimensionsHoldEverySprite ==
    (packer.made /\ packer.dims # None) =>
        \A k \in 1..Len(packer.packed) :
            /\ packer.packed[k].x + packer.packed[k].width <= packer.dims[1]
            /\ packer.packed[k].y + packer.packed[k].height <= packer.dims[2]

\* The padded rectangle of a packed sprite: [x0, x1) x [y0, y1).
Padded(sprite) ==
    [x0 |-> sprite.x - PADDING, x1 |-> sprite.x + sprite.width + PADDING,
     y0 |-> sprite.y - PADDING, y1 |-> sprite.y + sprite.height + PADDING]

\* C21: pack returns a position only when the rectangle fits: the padded
\* rectangle at a returned position lies inside [0, max_width) x
\* [0, max_height), and a rectangle that does not fit, one wider than
\* max_width included, gets None.
C21_PackReturnsOnlyFits ==
    (packer.made /\ packer.calls > 0) =>
        /\ packer.last # None =>
              LET rect == Padded(packer.packed[Len(packer.packed)])
              IN  /\ 0 <= rect.x0 /\ rect.x1 <= packer.max_width
                  /\ 0 <= rect.y0 /\ rect.y1 <= packer.max_height
        /\ (\/ packer.asked[1] + PADDING * 2 > packer.max_width
            \/ packer.asked[2] + PADDING * 2 > packer.max_height) =>
              packer.last = None

\* C22: no two padded rectangles placed by one packer overlap: two on the
\* same shelf occupy disjoint x ranges, and two on different shelves occupy
\* disjoint y ranges.
C22_PaddedRectanglesAreDisjoint ==
    packer.made =>
        \A i, j \in 1..Len(packer.packed) :
            i < j =>
                LET p == Padded(packer.packed[i])
                    q == Padded(packer.packed[j])
                IN  /\ p.y0 = q.y0 => (p.x1 <= q.x0 \/ q.x1 <= p.x0)
                    /\ p.y0 # q.y0 => (p.y1 <= q.y0 \/ q.y1 <= p.y0)
                    /\ \/ p.x1 <= q.x0 \/ q.x1 <= p.x0
                       \/ p.y1 <= q.y0 \/ q.y1 <= p.y0

\* Three sprites are packed: a shorter one shares the first shelf with a
\* taller one, and the third, as tall as the first, opens a second shelf.
C22_Witness ==
    /\ packer.made
    /\ Len(packer.packed) = 3
    /\ packer.packed[1].height > packer.packed[2].height
    /\ packer.packed[2].y = packer.packed[1].y
    /\ packer.packed[2].x > packer.packed[1].x
    /\ packer.packed[3].y = packer.packed[1].y + packer.packed[1].height + PADDING * 2
    /\ Len(packer.shelves) = 2

=============================================================================
